---------------------------- MODULE Spec2Model ----------------------------
(***************************************************************************)
(* The spending ETL pipeline: the SRC loader (02_load_parquet_to_src.py),  *)
(* the STG transform (02_transform_and_load_stg.py) and the CURATED        *)
(* snapshot (02_create_snapshot.py), as scripts run one at a time against  *)
(* one shared schema.  A script is a sequence of steps; a step that ends   *)
(* in a commit (or an exit) is one action.                                 *)
(*                                                                         *)
(* Text is a sequence of tokens (a word or one blank), NULL is the text    *)
(* Null.  A raw amount is a sequence of amount tokens, a raw date a record *)
(* of its three number groups and its separator.                           *)
(***************************************************************************)
EXTENDS Integers, Sequences, FiniteSets, TLC

VARIABLES
    src,          \* table src_daily_spending, in src_id order
    clock,        \* wall clock in seconds, read by datetime.now()
    dimPerson,    \* table stg_dim_person
    dimLocation,  \* table stg_dim_location
    dimCategory,  \* table stg_dim_category
    dimPayment,   \* table stg_dim_payment_method
    fact,         \* table stg_fact_spending, in spending_id order
    cur,          \* table curated_spending_snapshots
    viewExists,   \* whether view vw_stg_spending_complete exists
    nullMode,     \* how the database and pandas treat a missing dimension name
    pc,           \* the script step that runs next ("idle": no script runs)
    ld,           \* locals of 02_load_parquet_to_src.py
    tf,           \* df_transformed of 02_transform_and_load_stg.py
    sn,           \* locals of 02_create_snapshot.py
    last,         \* the script that ended last and its exit status
    hist,         \* history: what earlier runs left, for the properties
    dst,          \* the four DST tables, by name
    ds,           \* locals of the DST populate script that runs
    val,          \* validation_passed and issues of 06_run_validation.py
    summary       \* the rows of view v_latest_validation_summary

vars == <<src, clock, dimPerson, dimLocation, dimCategory, dimPayment, fact,
          cur, viewExists, nullMode, pc, ld, tf, sn, last, hist,
          dst, ds, val, summary>>

\* what the SRC, STG and CURATED scripts above the DST stage never write
dstVars == <<dst, ds, val, summary>>

stgTables == <<dimPerson, dimLocation, dimCategory, dimPayment, fact>>

-----------------------------------------------------------------------------
(* Bounds of the model *)

MaxSrcRows == 2
MaxVersions == 2
MaxClock == 1
MaxChunkSize == 2
MaxStgRuns == 2
MaxDstRows == 2
MaxSummaryRows == 2
MaxCheckFailures == 1
MaxGateRows == 1

-----------------------------------------------------------------------------
(* Text *)

Null == <<"NULL">>

Blank == " "

RECURSIVE lstrip(_)
lstrip(s) ==
    IF s # <<>> /\ Head(s) = Blank THEN lstrip(Tail(s)) ELSE s

RECURSIVE rstrip(_)
rstrip(s) ==
    IF s # <<>> /\ s[Len(s)] = Blank THEN rstrip(SubSeq(s, 1, Len(s) - 1)) ELSE s

\* str.strip(); Series.str.strip() leaves a missing value missing
strip(s) == IF s = Null THEN Null ELSE lstrip(rstrip(s))

\* "not x" of Python for a text, and pd.isna(x)
isna(s) == s = Null
falsy(s) == s = Null \/ s = <<>>

\* str.lower() on the tokens the model uses
lowerTok(t) ==
    CASE t = "Food" -> "food"
      [] t = "Mall" -> "mall"
      [] OTHER -> t

lower(s) == [i \in 1..Len(s) |-> lowerTok(s[i])]

\* "keyword in text" for some keyword of kws
containsAny(s, kws) == \E i \in 1..Len(s) : s[i] \in kws

-----------------------------------------------------------------------------
(* Amounts: a raw amount is a sequence of amount tokens *)

Sym(s) == [k |-> "sym", s |-> s, n |-> 0]
Num(n) == [k |-> "num", s |-> "", n |-> n]

NullAmount == <<Sym("NULL")>>

RECURSIVE lstripA(_)
lstripA(a) ==
    IF a # <<>> /\ Head(a) = Sym(Blank) THEN lstripA(Tail(a)) ELSE a

RECURSIVE rstripA(_)
rstripA(a) ==
    IF a # <<>> /\ a[Len(a)] = Sym(Blank)
    THEN rstripA(SubSeq(a, 1, Len(a) - 1)) ELSE a

stripA(a) == lstripA(rstripA(a))

\* str.upper() on the amount tokens the model uses
upperA(a) ==
    [i \in 1..Len(a) |-> IF a[i] = Sym("sgd") THEN Sym("SGD") ELSE a[i]]

RECURSIVE Digits(_)
Digits(n) == IF n < 10 THEN 1 ELSE 1 + Digits(n \div 10)

RECURSIVE Pow10(_)
Pow10(d) == IF d = 0 THEN 1 ELSE 10 * Pow10(d - 1)

\* digit groups that became adjacent after a replace() are one number
RECURSIVE joinDigits(_)
joinDigits(a) ==
    IF Len(a) < 2 THEN a
    ELSE IF a[1].k = "num" /\ a[2].k = "num"
         THEN joinDigits(<<Num(a[1].n * Pow10(Digits(a[2].n)) + a[2].n)>>
                         \o SubSeq(a, 3, Len(a)))
         ELSE <<a[1]>> \o joinDigits(Tail(a))

replaceA(a, s) == joinDigits(SelectSeq(a, LAMBDA x : x # Sym(s)))

\* Decimal(text): the text is one number
DecimalOk(a) == Len(a) = 1 /\ a[1].k = "num"

clean_amount(amount_str) ==
    IF amount_str = NullAmount \/ amount_str = <<>>
    THEN [amount |-> 0, currency |-> "SGD", ok |-> FALSE]
    ELSE LET s1 == stripA(amount_str)
             s2 == IF \E i \in 1..Len(s1) : upperA(s1)[i] = Sym("SGD")
                   THEN stripA(replaceA(upperA(s1), "SGD"))
                   ELSE s1
             s3 == stripA(replaceA(replaceA(s2, "$"), ","))
         IN IF DecimalOk(s3)
            THEN [amount |-> s3[1].n, currency |-> "SGD", ok |-> TRUE]
            ELSE [amount |-> 0, currency |-> "SGD", ok |-> FALSE]

-----------------------------------------------------------------------------
(* Dates: a raw date is its three groups a, b, c and its separator; bname   *)
(* says that b is a month name (Jan..Dec as 1..12); sep "?" is text that    *)
(* is no date                                                               *)

NullDate == [a |-> 0, sep |-> "NULL", b |-> 0, bname |-> FALSE, c |-> 0]
NoDate == [y |-> 0, m |-> 0, d |-> 0, ok |-> FALSE]

is4(n) == n >= 1000 /\ n <= 9999
is2(n) == n >= 0 /\ n <= 99

IsLeap(y) == (y % 4 = 0 /\ y % 100 # 0) \/ y % 400 = 0

DaysIn(y, m) ==
    IF m = 2 THEN (IF IsLeap(y) THEN 29 ELSE 28)
    ELSE IF m \in {4, 6, 9, 11} THEN 30 ELSE 31

ValidYMD(y, m, d) == y >= 1 /\ m \in 1..12 /\ d >= 1 /\ d <= DaysIn(y, m)

\* the century strptime gives a %y year
year_y(c) == IF c < 69 THEN 2000 + c ELSE 1900 + c

\* datetime.strptime(date_str, fmt): the date, or NoDate for ValueError
strptime(r, fmt) ==
    LET mk(y, m, d) == IF ValidYMD(y, m, d)
                       THEN [y |-> y, m |-> m, d |-> d, ok |-> TRUE]
                       ELSE NoDate
    IN CASE fmt = "%d-%b-%Y" ->
              IF r.sep = "-" /\ r.bname /\ is4(r.c) THEN mk(r.c, r.b, r.a) ELSE NoDate
         [] fmt = "%d/%m/%Y" ->
              IF r.sep = "/" /\ ~r.bname /\ is4(r.c) THEN mk(r.c, r.b, r.a) ELSE NoDate
         [] fmt = "%Y-%m-%d" ->
              IF r.sep = "-" /\ ~r.bname /\ is4(r.a) THEN mk(r.a, r.b, r.c) ELSE NoDate
         [] fmt = "%d/%m/%y" ->
              IF r.sep = "/" /\ ~r.bname /\ is2(r.c) THEN mk(year_y(r.c), r.b, r.a) ELSE NoDate
         [] fmt = "%d-%m-%Y" ->
              IF r.sep = "-" /\ ~r.bname /\ is4(r.c) THEN mk(r.c, r.b, r.a) ELSE NoDate
         [] fmt = "%d-%m-%y" ->
              IF r.sep = "-" /\ ~r.bname /\ is2(r.c) THEN mk(year_y(r.c), r.b, r.a) ELSE NoDate
         [] fmt = "%Y/%m/%d" ->
              IF r.sep = "/" /\ ~r.bname /\ is4(r.a) THEN mk(r.a, r.b, r.c) ELSE NoDate
         [] fmt = "%d-%b-%y" ->
              IF r.sep = "-" /\ r.bname /\ is2(r.c) THEN mk(year_y(r.c), r.b, r.a) ELSE NoDate
         [] OTHER -> NoDate

common_formats ==
    <<"%d-%b-%Y", "%d/%m/%Y", "%Y-%m-%d", "%d/%m/%y",
      "%d-%m-%Y", "%d-%m-%y", "%Y/%m/%d", "%d-%b-%y">>

\* dateutil's parse(date_str, dayfirst=True) on a date with a 4-digit year
\* last: day first, unless only the other order is a date
dateutil_parse(r) ==
    IF r.sep \in {"-", "/"} /\ ~r.bname /\ is4(r.c)
    THEN IF r.a > 12 \/ r.b <= 12
         THEN (IF ValidYMD(r.c, r.b, r.a)
               THEN [y |-> r.c, m |-> r.b, d |-> r.a, ok |-> TRUE] ELSE NoDate)
         ELSE (IF ValidYMD(r.c, r.a, r.b)
               THEN [y |-> r.c, m |-> r.a, d |-> r.b, ok |-> TRUE] ELSE NoDate)
    ELSE NoDate

RECURSIVE tryFormats(_, _)
tryFormats(r, i) ==
    IF i > Len(common_formats) THEN dateutil_parse(r)
    ELSE IF strptime(r, common_formats[i]).ok THEN strptime(r, common_formats[i])
         ELSE tryFormats(r, i + 1)

clean_date_improved(date_str) ==
    IF date_str = NullDate THEN NoDate ELSE tryFormats(date_str, 1)

-----------------------------------------------------------------------------
(* Classification of the free-text fields *)

online_keywords == {"shopee", "grab", "online"}
transport_keywords == {"mrt", "bus", "grab"}
physical_keywords == {"mall", "cafe"}

classify_location_type(location_name) ==
    IF falsy(location_name) THEN "Unknown"
    ELSE IF containsAny(lower(location_name), online_keywords) THEN "Online"
    ELSE IF containsAny(lower(location_name), transport_keywords) THEN "Transport"
    ELSE IF containsAny(lower(location_name), physical_keywords) THEN "Physical"
    ELSE "Physical"

classify_payment_type(payment_method) ==
    IF falsy(payment_method) THEN "Other"
    ELSE IF containsAny(lower(payment_method), {"card", "visa"}) THEN "Card"
    ELSE IF containsAny(lower(payment_method), {"pay", "wallet", "grab"}) THEN "Digital Wallet"
    ELSE IF containsAny(lower(payment_method), {"ez-link", "nets"}) THEN "Transit Card"
    ELSE IF containsAny(lower(payment_method), {"bank", "giro"}) THEN "Bank Transfer"
    ELSE "Other"

classify_category_group(category) ==
    IF falsy(category) THEN "Other"
    ELSE IF lower(category) \in {<<"groceries">>, <<"food">>, <<"utilities">>} THEN "Essential"
    ELSE IF lower(category) \in {<<"shopping">>, <<"entertainment">>, <<"dining">>}
         THEN "Discretionary"
    ELSE IF lower(category) \in {<<"transport">>, <<"transportation">>} THEN "Transport"
    ELSE IF lower(category) \in {<<"healthcare">>, <<"medical">>, <<"health">>}
         THEN "Healthcare"
    ELSE IF lower(category) \in {<<"education">>, <<"learning">>, <<"books">>}
         THEN "Education"
    ELSE "Other"

-----------------------------------------------------------------------------
(* The rows a parquet file may hold *)

D(a, sep, b, c) == [a |-> a, sep |-> sep, b |-> b, bname |-> FALSE, c |-> c]

BaseRow ==
    [person_name |-> <<"ann">>, spending_date |-> D(15, "/", 1, 2024),
     category |-> <<"food">>, amount |-> <<Sym("$"), Num(40)>>,
     location |-> <<"mall">>, description |-> <<"lunch">>,
     payment_method |-> <<"visa">>]

\* a second person, an ISO date, a plain amount, other dimension values
RowBob ==
    [person_name |-> <<"bob">>, spending_date |-> D(2024, "-", 2, 10),
     category |-> <<"books">>, amount |-> <<Num(5)>>,
     location |-> <<"grab">>, description |-> <<>>,
     payment_method |-> <<"nets">>]

\* the names of BaseRow with blanks around them, the amount with its currency
RowAnnBlank ==
    [person_name |-> <<"ann", Blank>>, spending_date |-> D(1, "-", 3, 24),
     category |-> <<"food", Blank>>, amount |-> <<Num(7), Sym(Blank), Sym("sgd")>>,
     location |-> <<Blank, "mall">>, description |-> <<Blank>>,
     payment_method |-> <<"visa", Blank>>]

\* an amount that is no number
RowBadAmount == [BaseRow EXCEPT !.amount = <<Sym("x")>>]

\* a date that is no date (month 13 either way round)
RowBadDate == [RowBob EXCEPT !.spending_date = D(13, "/", 13, 2024)]

\* a missing person name
RowNoPerson == [BaseRow EXCEPT !.person_name = Null]

\* blank and empty dimension names, nothing parsed
RowEmpty ==
    [person_name |-> <<Blank>>, spending_date |-> NullDate,
     category |-> <<>>, amount |-> NullAmount,
     location |-> <<>>, description |-> Null,
     payment_method |-> <<"cash">>]

\* an empty location beside a blank one: one name, two location types
RowBlankLoc == [RowBob EXCEPT !.location = <<Blank>>, !.category = Null]
RowEmptyLoc == [BaseRow EXCEPT !.location = <<>>, !.amount = <<Num(1), Sym(","), Num(0)>>]

FileRowKinds == {BaseRow, RowBob, RowBadAmount}

StgRowKinds ==
    {BaseRow, RowBob, RowAnnBlank, RowBadAmount, RowBadDate, RowNoPerson,
     RowEmpty, RowBlankLoc, RowEmptyLoc}

SeqsUpTo(S, n) == UNION {[1..k -> S] : k \in 0..n}

\* a file row as a row of src_daily_spending
SrcRow(r, id, batch) ==
    [src_id |-> id, load_batch_id |-> batch,
     person_name |-> r.person_name, spending_date |-> r.spending_date,
     category |-> r.category, amount |-> r.amount, location |-> r.location,
     description |-> r.description, payment_method |-> r.payment_method]

\* to_sql(..., if_exists='append'): the serial src_id follows the table's
AppendRows(table, rows, batch) ==
    table \o [i \in 1..Len(rows) |-> SrcRow(rows[i], Len(table) + i, batch)]

BatchCount(table, batch) ==
    Cardinality({i \in 1..Len(table) : table[i].load_batch_id = batch})

-----------------------------------------------------------------------------
(* Locals of the scripts while they do not run *)

NoLd == [file |-> <<>>, chunk_size |-> 0, batch_id |-> 0, total_loaded |-> 0,
         chunk_num |-> 0]
NoSn == [next_version |-> 0, version_count |-> 0, inserted_count |-> 0]
NoLast == [script |-> "none", status |-> 0, step |-> "none", batch_id |-> 0,
           version |-> 0]
NoDst == [monthly |-> <<>>, category |-> <<>>, person |-> <<>>, payment |-> <<>>]
NoDs == [table |-> "none", snapshot_version |-> 0, deleted_count |-> 0]
NoVal == [validation_passed |-> TRUE, issues |-> {}]

\* how a script ended: its exit status, the step it ended in, its batch id
Exit(script, status, step, batch) ==
    [script |-> script, status |-> status, step |-> step, batch_id |-> batch,
     version |-> 0]

\* a script has started and has not ended yet
Running(script) == Exit(script, -1, "running", 0)

-----------------------------------------------------------------------------
(* 02_load_parquet_to_src.py *)

\* STEP 1 and 2: the file is missing or its metadata cannot be read
LoadFileError ==
    /\ pc = "idle"
    /\ \E t \in {clock, clock + 1} :
          /\ t <= MaxClock
          /\ clock' = t
          /\ last' = Exit("load", 1, "file", t)
    /\ UNCHANGED dstVars
    /\ UNCHANGED <<src, stgTables, cur, viewExists, nullMode, pc, ld, tf, sn, hist>>

\* main up to the chunk loop: the arguments and the batch id are fixed
LoadStartOn(files) ==
    /\ pc = "idle"
    /\ \E f \in files, cs \in 1..MaxChunkSize, t \in {clock, clock + 1} :
          /\ t <= MaxClock
          /\ Len(src) + Len(f) <= MaxSrcRows
          /\ clock' = t
          /\ ld' = [file |-> f, chunk_size |-> cs, batch_id |-> t,
                    total_loaded |-> 0, chunk_num |-> 0]
    /\ pc' = "load_loop"
    /\ last' = Running("load")
    /\ UNCHANGED dstVars
    /\ UNCHANGED <<src, stgTables, cur, viewExists, nullMode, tf, sn, hist>>

\* one pass of the loop: to_sql inserts the chunk through the engine, on a
\* connection of its own that commits; the count is read on `connection`
LoadChunk ==
    /\ pc = "load_loop"
    /\ ld.file # <<>>
    /\ \E n \in 1..ld.chunk_size :
          /\ n <= Len(ld.file)
          /\ LET df_chunk == SubSeq(ld.file, 1, n)
                 inserted == AppendRows(src, df_chunk, ld.batch_id)
                 current_count == BatchCount(inserted, ld.batch_id)
             IN /\ src' = inserted
                /\ IF current_count = ld.total_loaded + Len(df_chunk)
                   THEN \* connection.commit()
                        /\ ld' = [ld EXCEPT !.file = SubSeq(ld.file, n + 1, Len(ld.file)),
                                            !.total_loaded = @ + Len(df_chunk),
                                            !.chunk_num = @ + 1]
                        /\ pc' = "load_loop"
                        /\ last' = last
                   ELSE \* connection.rollback(); raise; except: rollback, exit(1)
                        /\ ld' = NoLd
                        /\ pc' = "idle"
                        /\ last' = Exit("load", 1, "chunk_loop", ld.batch_id)
    /\ UNCHANGED dstVars
    /\ UNCHANGED <<clock, stgTables, cur, viewExists, nullMode, tf, sn, hist>>

\* to_sql raises: its own transaction inserts nothing; except: rollback on
\* `connection`, which has written nothing, and exit(1)
LoadChunkInsertFails ==
    /\ pc = "load_loop"
    /\ ld.file # <<>>
    /\ ld' = NoLd
    /\ pc' = "idle"
    /\ last' = Exit("load", 1, "chunk_loop", ld.batch_id)
    /\ UNCHANGED dstVars
    /\ UNCHANGED <<src, clock, stgTables, cur, viewExists, nullMode, tf, sn, hist>>

\* the loop is over: success is logged, the script ends with status 0
LoadSuccess ==
    /\ pc = "load_loop"
    /\ ld.file = <<>>
    /\ ld' = NoLd
    /\ pc' = "idle"
    /\ last' = Exit("load", 0, "done", ld.batch_id)
    /\ UNCHANGED dstVars
    /\ UNCHANGED <<src, clock, stgTables, cur, viewExists, nullMode, tf, sn, hist>>

-----------------------------------------------------------------------------
(* 02_transform_and_load_stg.py: the transformation *)

\* faulty variant: a missing person name costs 10 points
calculate_data_quality_score_Person10(row) ==
    LET s0 == 100
        s1 == IF ~row.is_amount_parsed_successfully THEN s0 - 30 ELSE s0
        s2 == IF ~row.is_date_parsed_successfully THEN s1 - 30 ELSE s1
        s3 == IF isna(row.description) \/ falsy(row.description) THEN s2 - 10 ELSE s2
        s4 == IF isna(row.person_name) \/ falsy(row.person_name) THEN s3 - 10 ELSE s3
        s5 == IF isna(row.location_name) \/ falsy(row.location_name) THEN s4 - 5 ELSE s4
        s6 == IF isna(row.category_name) \/ falsy(row.category_name) THEN s5 - 5 ELSE s5
    IN IF s6 > 0 THEN s6 ELSE 0

calculate_data_quality_score(row) ==
    LET s0 == 100
        s1 == IF ~row.is_amount_parsed_successfully THEN s0 - 30 ELSE s0
        s2 == IF ~row.is_date_parsed_successfully THEN s1 - 30 ELSE s1
        s3 == IF isna(row.description) \/ falsy(row.description) THEN s2 - 10 ELSE s2
        s4 == IF isna(row.person_name) \/ falsy(row.person_name) THEN s3 - 20 ELSE s3
        s5 == IF isna(row.location_name) \/ falsy(row.location_name) THEN s4 - 5 ELSE s4
        s6 == IF isna(row.category_name) \/ falsy(row.category_name) THEN s5 - 5 ELSE s5
    IN IF s6 > 0 THEN s6 ELSE 0

\* STEP 2 on one row of df_source
TransformRow(r) ==
    LET amount_results == clean_amount(r.amount)
        date_results == clean_date_improved(r.spending_date)
        cleaned ==
            [src_id |-> r.src_id,
             amount |-> r.amount,
             description |-> r.description,
             amount_cleaned |-> amount_results.amount,
             currency_code |-> amount_results.currency,
             is_amount_parsed_successfully |-> amount_results.ok,
             is_date_parsed_successfully |-> date_results.ok,
             spending_year |-> date_results.y,
             spending_month |-> date_results.m,
             spending_day |-> date_results.d,
             location_type |-> classify_location_type(r.location),
             payment_type |-> classify_payment_type(r.payment_method),
             category_group |-> classify_category_group(r.category),
             person_name |-> strip(r.person_name),
             location_name |-> strip(r.location),
             category_name |-> strip(r.category),
             payment_method_name |-> strip(r.payment_method)]
    IN [f \in DOMAIN cleaned \cup {"data_quality_score"} |->
          IF f = "data_quality_score" THEN calculate_data_quality_score(cleaned)
          ELSE cleaned[f]]

Transform(df_source) == [i \in 1..Len(df_source) |-> TransformRow(df_source[i])]

\* faulty variant: the date flag is not looked at
IsValid_AmountOnly(row) == row.is_amount_parsed_successfully

IsValid(row) == row.is_amount_parsed_successfully /\ row.is_date_parsed_successfully

df_valid(df_transformed) == SelectSeq(df_transformed, IsValid)
df_rejected(df_transformed) == SelectSeq(df_transformed, LAMBDA row : ~IsValid(row))

-----------------------------------------------------------------------------
(* 02_transform_and_load_stg.py: the dimension tables *)

NullModes == {"kept", "dropped", "rejected"}

\* the text a missing name is stored as when the driver sends it as a number
NaNText == <<"NaN">>

\* DataFrame.drop_duplicates(): the first of equal rows stays, in order
RECURSIVE drop_duplicates(_)
drop_duplicates(rows) ==
    IF rows = <<>> THEN <<>>
    ELSE LET init == drop_duplicates(SubSeq(rows, 1, Len(rows) - 1))
             r == rows[Len(rows)]
         IN IF \E i \in 1..Len(init) : init[i] = r THEN init ELSE Append(init, r)

NameType(n, t) == [name |-> n, type |-> t]

persons(valid) ==
    drop_duplicates([i \in 1..Len(valid) |-> NameType(valid[i].person_name, "")])
locations(valid) ==
    drop_duplicates([i \in 1..Len(valid) |->
                       NameType(valid[i].location_name, valid[i].location_type)])
categories(valid) ==
    drop_duplicates([i \in 1..Len(valid) |->
                       NameType(valid[i].category_name, valid[i].category_group)])
payment_methods(valid) ==
    drop_duplicates([i \in 1..Len(valid) |->
                       NameType(valid[i].payment_method_name, valid[i].payment_type)])

\* the name as the INSERT stores it
StoredName(n, mode) == IF n = Null /\ mode = "dropped" THEN NaNText ELSE n

\* whether a stored name conflicts with the new one on the unique index
\* (a NULL conflicts with nothing)
Conflicts(row, n) == n # Null /\ row.name = n

\* INSERT ... ON CONFLICT (name) DO NOTHING / DO UPDATE SET type, one row
\* after the other; the serial id is drawn before the conflict is seen
RECURSIVE Upsert(_, _, _, _, _)
Upsert(table, rows, nextId, doUpdate, mode) ==
    IF rows = <<>> THEN table
    ELSE LET n == StoredName(Head(rows).name, mode)
             t == Head(rows).type
             hit == \E i \in 1..Len(table) : Conflicts(table[i], n)
             after ==
                 IF hit
                 THEN [i \in 1..Len(table) |->
                         IF Conflicts(table[i], n) /\ doUpdate
                         THEN [table[i] EXCEPT !.type = t] ELSE table[i]]
                 ELSE Append(table, [id |-> nextId, name |-> n, type |-> t])
         IN Upsert(after, Tail(rows), nextId + 1, doUpdate, mode)

\* the INSERT of a missing name fails on a NOT NULL column
InsertRaises(rows, mode) ==
    mode = "rejected" /\ \E i \in 1..Len(rows) : rows[i].name = Null

\* a dimension table after the load into the table as truncated and restarted
MaxId(table) ==
    IF table = <<>> THEN 0
    ELSE CHOOSE m \in {table[i].id : i \in 1..Len(table)} :
           \A i \in 1..Len(table) : table[i].id <= m

\* a dimension table after the load of rows: after STEP 0 the table is empty
\* and its serial restarted
LoadDim(table, rows, doUpdate, mode) ==
    Upsert(table, rows, MaxId(table) + 1, doUpdate, mode)

-----------------------------------------------------------------------------
(* 02_transform_and_load_stg.py: the fact table *)

\* df_fact.merge(map, on name, how='left'): the id of the row of that name,
\* 0 for no match (NaN).  Two missing names match each other; a missing name
\* does not match the text NaN.
MergeId(map, name) ==
    IF \E i \in 1..Len(map) : map[i].name = name
    THEN (CHOOSE i \in 1..Len(map) : map[i].name = name) 
    ELSE 0

ResolvedId(map, name) ==
    IF MergeId(map, name) = 0 THEN 0 ELSE map[MergeId(map, name)].id

Merged(row, pm, lm, cm, ym) ==
    [f \in DOMAIN row \cup {"person_id", "location_id", "category_id", "payment_method_id"} |->
       CASE f = "person_id" -> ResolvedId(pm, row.person_name)
         [] f = "location_id" -> ResolvedId(lm, row.location_name)
         [] f = "category_id" -> ResolvedId(cm, row.category_name)
         [] f = "payment_method_id" -> ResolvedId(ym, row.payment_method_name)
         [] OTHER -> row[f]]

\* faulty variant: dropna leaves person_id out
HasKeys_NoPerson(row) ==
    row.location_id # 0 /\ row.category_id # 0 /\ row.payment_method_id # 0

HasKeys(row) ==
    row.person_id # 0 /\ row.location_id # 0 /\ row.category_id # 0
    /\ row.payment_method_id # 0

\* df_fact after the four merges and dropna
df_fact(valid, pm, lm, cm, ym) ==
    SelectSeq([i \in 1..Len(valid) |-> Merged(valid[i], pm, lm, cm, ym)], HasKeys)

FactRow(row, id) ==
    [spending_id |-> id, src_id |-> row.src_id,
     person_id |-> row.person_id, location_id |-> row.location_id,
     category_id |-> row.category_id, payment_method_id |-> row.payment_method_id,
     spending_year |-> row.spending_year, spending_month |-> row.spending_month,
     amount_cleaned |-> row.amount_cleaned, description |-> row.description,
     data_quality_score |-> row.data_quality_score]

\* the batch insert: spending_id is the table's serial, restarted by STEP 0
InsertFacts(table, dff) ==
    table \o [i \in 1..Len(dff) |-> FactRow(dff[i], Len(table) + i)]

-----------------------------------------------------------------------------
(* 02_transform_and_load_stg.py: the script *)

NoHist == [stgFirst |-> <<>>, stgRuns |-> 0, created |-> {}]

StgExit(status, step) ==
    /\ pc' = "idle"
    /\ tf' = <<>>
    /\ last' = Exit("stg", status, step, 0)

\* faulty variant: nothing is cleared
Truncate_Nothing(table) == table

\* TRUNCATE TABLE t RESTART IDENTITY CASCADE
Truncate(table) == <<>>

\* STEP 0: clear the staging tables and commit
StgClear ==
    /\ pc = "idle"
    /\ fact' = Truncate(fact)
    /\ dimPayment' = Truncate(dimPayment)
    /\ dimCategory' = Truncate(dimCategory)
    /\ dimLocation' = Truncate(dimLocation)
    /\ dimPerson' = Truncate(dimPerson)
    /\ pc' = "stg_extract"
    /\ last' = Running("stg")
    /\ UNCHANGED dstVars
    /\ UNCHANGED <<src, clock, cur, viewExists, nullMode, ld, tf, sn, hist>>

\* STEP 0 raises before its commit: exit(1), nothing cleared
StgClearFails ==
    /\ pc = "idle"
    /\ last' = Exit("stg", 1, "clear", 0)
    /\ UNCHANGED dstVars
    /\ UNCHANGED <<src, clock, stgTables, cur, viewExists, nullMode, pc, ld, tf, sn, hist>>

\* STEP 1 and STEP 2: read src_daily_spending and transform it; the success
\* rates divide by len(df_transformed), so an empty source ends the script
\* with ZeroDivisionError
StgTransform ==
    /\ pc = "stg_extract"
    /\ IF src = <<>>
       THEN StgExit(1, "transform")
       ELSE /\ tf' = Transform(src)
            /\ pc' = "stg_dim_person"
            /\ last' = last
    /\ UNCHANGED dstVars
    /\ UNCHANGED <<src, clock, stgTables, cur, viewExists, nullMode, ld, sn, hist>>

\* STEP 3.1: stg_dim_person, committed
StgLoadPerson ==
    /\ pc = "stg_dim_person"
    /\ LET rows == persons(df_valid(tf))
       IN IF InsertRaises(rows, nullMode)
          THEN StgExit(1, "dim") /\ dimPerson' = dimPerson
          ELSE /\ dimPerson' = LoadDim(dimPerson, rows, FALSE, nullMode)
               /\ pc' = "stg_dim_location"
               /\ UNCHANGED <<tf, last>>
    /\ UNCHANGED dstVars
    /\ UNCHANGED <<src, clock, dimLocation, dimCategory, dimPayment, fact, cur,
                   viewExists, nullMode, ld, sn, hist>>

\* STEP 3.2: stg_dim_location, committed
StgLoadLocation ==
    /\ pc = "stg_dim_location"
    /\ LET rows == locations(df_valid(tf))
       IN IF InsertRaises(rows, nullMode)
          THEN StgExit(1, "dim") /\ dimLocation' = dimLocation
          ELSE /\ dimLocation' = LoadDim(dimLocation, rows, TRUE, nullMode)
               /\ pc' = "stg_dim_category"
               /\ UNCHANGED <<tf, last>>
    /\ UNCHANGED dstVars
    /\ UNCHANGED <<src, clock, dimPerson, dimCategory, dimPayment, fact, cur,
                   viewExists, nullMode, ld, sn, hist>>

\* STEP 3.3: stg_dim_category, committed
StgLoadCategory ==
    /\ pc = "stg_dim_category"
    /\ LET rows == categories(df_valid(tf))
       IN IF InsertRaises(rows, nullMode)
          THEN StgExit(1, "dim") /\ dimCategory' = dimCategory
          ELSE /\ dimCategory' = LoadDim(dimCategory, rows, TRUE, nullMode)
               /\ pc' = "stg_dim_payment"
               /\ UNCHANGED <<tf, last>>
    /\ UNCHANGED dstVars
    /\ UNCHANGED <<src, clock, dimPerson, dimLocation, dimPayment, fact, cur,
                   viewExists, nullMode, ld, sn, hist>>

\* STEP 3.4: stg_dim_payment_method, committed
StgLoadPayment ==
    /\ pc = "stg_dim_payment"
    /\ LET rows == payment_methods(df_valid(tf))
       IN IF InsertRaises(rows, nullMode)
          THEN StgExit(1, "dim") /\ dimPayment' = dimPayment
          ELSE /\ dimPayment' = LoadDim(dimPayment, rows, TRUE, nullMode)
               /\ pc' = "stg_fact"
               /\ UNCHANGED <<tf, last>>
    /\ UNCHANGED dstVars
    /\ UNCHANGED <<src, clock, dimPerson, dimLocation, dimCategory, fact, cur,
                   viewExists, nullMode, ld, sn, hist>>

\* STEP 4: merge the dimension ids (the maps read in STEP 3 are the tables:
\* nothing else writes them), drop the rows without a key, insert, commit
StgLoadFact ==
    /\ pc = "stg_fact"
    /\ fact' = InsertFacts(fact, df_fact(df_valid(tf), dimPerson, dimLocation,
                                         dimCategory, dimPayment))
    /\ pc' = "stg_verify"
    /\ UNCHANGED dstVars
    /\ UNCHANGED <<src, clock, dimPerson, dimLocation, dimCategory, dimPayment,
                   cur, viewExists, nullMode, ld, tf, sn, last, hist>>

\* STEP 5 and the end of the script: the counts are printed, status 0
StgVerify ==
    /\ pc = "stg_verify"
    /\ StgExit(0, "done")
    /\ hist' = [hist EXCEPT
                  !.stgFirst = IF hist.stgRuns = 0 THEN stgTables ELSE @,
                  !.stgRuns = IF @ < MaxStgRuns THEN @ + 1 ELSE @]
    /\ UNCHANGED dstVars
    /\ UNCHANGED <<src, clock, stgTables, cur, viewExists, nullMode, ld, sn>>

\* a database error in STEP 1, 3 or 4 (except: exit(1)), or in the first
\* queries of STEP 5 (fact_count stays unbound: NameError at the summary);
\* what was committed stays
StgStepFails ==
    /\ pc \in {"stg_extract", "stg_dim_person", "stg_dim_location",
               "stg_dim_category", "stg_dim_payment", "stg_fact", "stg_verify"}
    /\ StgExit(1, pc)
    /\ UNCHANGED dstVars
    /\ UNCHANGED <<src, clock, stgTables, cur, viewExists, nullMode, ld, sn, hist>>

StgNext ==
    \/ StgClear
    \/ StgClearFails
    \/ StgTransform
    \/ StgLoadPerson
    \/ StgLoadLocation
    \/ StgLoadCategory
    \/ StgLoadPayment
    \/ StgLoadFact
    \/ StgVerify
    \/ StgStepFails

\* the staging stage alone, over every source table of the bound
InitStg ==
    /\ src \in {AppendRows(<<>>, f, 0) : f \in SeqsUpTo(StgRowKinds, MaxSrcRows)}
    /\ clock = 0
    /\ dimPerson = <<>> /\ dimLocation = <<>> /\ dimCategory = <<>>
    /\ dimPayment = <<>> /\ fact = <<>>
    /\ cur = <<>>
    /\ viewExists = TRUE
    /\ nullMode \in NullModes
    /\ pc = "idle"
    /\ ld = NoLd
    /\ tf = <<>>
    /\ sn = NoSn
    /\ last = NoLast
    /\ hist = NoHist
    /\ dst = NoDst /\ ds = NoDs /\ val = NoVal /\ summary = <<>>

SpecStg == InitStg /\ [][StgNext]_vars

-----------------------------------------------------------------------------
(* 02_create_snapshot.py *)

Versions(table) == {table[i].snapshot_version : i \in 1..Len(table)}

LatestVersions(table) ==
    {table[i].snapshot_version : i \in {j \in 1..Len(table) : table[j].is_latest = 1}}

\* COALESCE(MAX(snapshot_version), 0)
MaxVersion(table) ==
    IF table = <<>> THEN 0
    ELSE CHOOSE m \in Versions(table) : \A v \in Versions(table) : v <= m

\* faulty variant: the maximum is taken as the next version
NextVersion_NoIncrement(table) == MaxVersion(table)

\* STEP 1: next_version = current_max_version + 1
NextVersion(table) == MaxVersion(table) + 1

\* faulty variant: the flags are cleared only from the third run on
HasVersions_FromThirdRun(version_count) == version_count > 1

\* STEP 3: if version_count > 0
HasVersions(version_count) == version_count > 0

\* faulty variant: the flagged rows are deleted instead of updated
MarkHistorical_Deletes(table) == SelectSeq(table, LAMBDA r : r.is_latest # 1)

\* UPDATE curated_spending_snapshots SET is_latest = 0 WHERE is_latest = 1
MarkHistorical(table) ==
    [i \in 1..Len(table) |->
       IF table[i].is_latest = 1 THEN [table[i] EXCEPT !.is_latest = 0] ELSE table[i]]

CountLatest(table) == Cardinality({i \in 1..Len(table) : table[i].is_latest = 1})

\* faulty variant: stg_spending_id is filled from f.src_id
SnapshotRow_SrcIdAsStgId(version, f, p, c, l, pm) ==
    [snapshot_version |-> version, is_latest |-> 1,
     src_id |-> f.src_id, stg_spending_id |-> f.src_id,
     person_name |-> p.name, category_name |-> c.name,
     category_group |-> c.type, location_name |-> l.name,
     location_type |-> l.type, payment_method_name |-> pm.name,
     payment_type |-> pm.type,
     spending_year |-> f.spending_year, spending_month |-> f.spending_month,
     amount_cleaned |-> f.amount_cleaned, description |-> f.description,
     data_quality_score |-> f.data_quality_score]

\* one row of the SELECT of insert_query
SnapshotRow(version, f, p, c, l, pm) ==
    [snapshot_version |-> version, is_latest |-> 1,
     src_id |-> f.src_id, stg_spending_id |-> f.spending_id,
     person_name |-> p.name, category_name |-> c.name,
     category_group |-> c.type, location_name |-> l.name,
     location_type |-> l.type, payment_method_name |-> pm.name,
     payment_type |-> pm.type,
     spending_year |-> f.spending_year, spending_month |-> f.spending_month,
     amount_cleaned |-> f.amount_cleaned, description |-> f.description,
     data_quality_score |-> f.data_quality_score]

\* FROM stg_fact_spending f JOIN the four dimensions ON the ids, for one f
JoinFact(version, f, dp, dc, dl, dy) ==
    LET ps == SelectSeq(dp, LAMBDA p : f.person_id = p.id)
        cs == SelectSeq(dc, LAMBDA c : f.category_id = c.id)
        ls == SelectSeq(dl, LAMBDA l : f.location_id = l.id)
        ys == SelectSeq(dy, LAMBDA y : f.payment_method_id = y.id)
        n == Len(ps) * Len(cs) * Len(ls) * Len(ys)
    IN [k \in 1..n |->
          SnapshotRow(version, f,
                      ps[((k - 1) % Len(ps)) + 1],
                      cs[(((k - 1) \div Len(ps)) % Len(cs)) + 1],
                      ls[(((k - 1) \div (Len(ps) * Len(cs))) % Len(ls)) + 1],
                      ys[((k - 1) \div (Len(ps) * Len(cs) * Len(ls))) + 1])]

RECURSIVE insert_query(_, _, _, _, _, _)
insert_query(version, f, dp, dc, dl, dy) ==
    IF f = <<>> THEN <<>>
    ELSE JoinFact(version, Head(f), dp, dc, dl, dy)
         \o insert_query(version, Tail(f), dp, dc, dl, dy)

CountVersionLatest(table, version) ==
    Cardinality({i \in 1..Len(table) :
                   table[i].snapshot_version = version /\ table[i].is_latest = 1})

CurExit(status, step, version) ==
    /\ pc' = "idle"
    /\ sn' = NoSn
    /\ last' = [Exit("cur", status, step, 0) EXCEPT !.version = version]

\* STEP 1 and STEP 2 pass: the version numbers are read, STG has rows and its view
CurCheck ==
    /\ pc = "idle"
    /\ Cardinality(Versions(cur)) < MaxVersions
    /\ Len(fact) # 0
    /\ viewExists
    /\ sn' = [next_version |-> NextVersion(cur),
              version_count |-> Cardinality(Versions(cur)),
              inserted_count |-> 0]
    /\ pc' = "cur_update"
    /\ last' = Running("cur")
    /\ UNCHANGED dstVars
    /\ UNCHANGED <<src, clock, stgTables, cur, viewExists, nullMode, ld, tf, hist>>

\* STEP 2: stg_fact_spending is empty: exit(1)
CurNoStgData ==
    /\ pc = "idle"
    /\ Len(fact) = 0
    /\ last' = Exit("cur", 1, "no_stg_data", 0)
    /\ UNCHANGED dstVars
    /\ UNCHANGED <<src, clock, stgTables, cur, viewExists, nullMode, pc, ld, tf, sn, hist>>

\* STEP 2: the view is missing: exit(1)
CurNoView ==
    /\ pc = "idle"
    /\ Len(fact) # 0
    /\ ~viewExists
    /\ last' = Exit("cur", 1, "no_view", 0)
    /\ UNCHANGED dstVars
    /\ UNCHANGED <<src, clock, stgTables, cur, viewExists, nullMode, pc, ld, tf, sn, hist>>

\* a database error in STEP 1 or STEP 2: exit(1)
CurCheckFails ==
    /\ pc = "idle"
    /\ last' = Exit("cur", 1, "check", 0)
    /\ UNCHANGED dstVars
    /\ UNCHANGED <<src, clock, stgTables, cur, viewExists, nullMode, pc, ld, tf, sn, hist>>

\* STEP 3: one transaction: the flags are cleared, the count of flagged rows
\* is verified to be 0, commit
CurUpdate ==
    /\ pc = "cur_update"
    /\ LET updated == IF HasVersions(sn.version_count) THEN MarkHistorical(cur) ELSE cur
       IN IF HasVersions(sn.version_count) /\ CountLatest(updated) # 0
          THEN CurExit(1, "update", 0) /\ cur' = cur
          ELSE /\ cur' = updated
               /\ pc' = "cur_insert"
               /\ UNCHANGED <<sn, last>>
    /\ UNCHANGED dstVars
    /\ UNCHANGED <<src, clock, stgTables, viewExists, nullMode, ld, tf, hist>>

\* STEP 3 raises: rollback, exit(1)
CurUpdateFails ==
    /\ pc = "cur_update"
    /\ CurExit(1, "update", 0)
    /\ UNCHANGED dstVars
    /\ UNCHANGED <<src, clock, stgTables, cur, viewExists, nullMode, ld, tf, hist>>

\* STEP 4: one transaction: the rows of STG are inserted as the new version,
\* the count of its flagged rows is verified, commit
CurInsert ==
    /\ pc = "cur_insert"
    /\ LET rows == insert_query(sn.next_version, fact, dimPerson, dimCategory,
                                dimLocation, dimPayment)
           inserted == cur \o rows
           inserted_count == Len(rows)
           verify_count == CountVersionLatest(inserted, sn.next_version)
       IN IF verify_count # inserted_count
          THEN CurExit(1, "insert", 0) /\ UNCHANGED <<cur, hist>>
          ELSE /\ cur' = inserted
               /\ sn' = [sn EXCEPT !.inserted_count = inserted_count]
               /\ pc' = "cur_validate"
               /\ last' = last
               /\ hist' = [hist EXCEPT !.created =
                              @ \cup {[version |-> sn.next_version,
                                       rows |-> {rows[i] : i \in 1..Len(rows)}]}]
    /\ UNCHANGED dstVars
    /\ UNCHANGED <<src, clock, stgTables, viewExists, nullMode, ld, tf>>

\* STEP 4 raises: rollback, exit(1); what STEP 3 committed stays
CurInsertFails ==
    /\ pc = "cur_insert"
    /\ CurExit(1, "insert", 0)
    /\ UNCHANGED dstVars
    /\ UNCHANGED <<src, clock, stgTables, cur, viewExists, nullMode, ld, tf, hist>>

\* STEP 5 and COMPLETION: the statistics are printed, the script ends with
\* status 0
CurValidate ==
    /\ pc = "cur_validate"
    /\ CurExit(0, "done", sn.next_version)
    /\ UNCHANGED dstVars
    /\ UNCHANGED <<src, clock, stgTables, cur, viewExists, nullMode, ld, tf, hist>>

\* a query of STEP 5 raises: the except clause prints the error, COMPLETION
\* follows with its banner, the script ends with status 0
CurValidateFails ==
    /\ pc = "cur_validate"
    /\ CurExit(0, "validation_error", sn.next_version)
    /\ UNCHANGED dstVars
    /\ UNCHANGED <<src, clock, stgTables, cur, viewExists, nullMode, ld, tf, hist>>

CurNext ==
    \/ CurCheck
    \/ CurNoStgData
    \/ CurNoView
    \/ CurCheckFails
    \/ CurUpdate
    \/ CurUpdateFails
    \/ CurInsert
    \/ CurInsertFails
    \/ CurValidate
    \/ CurValidateFails

-----------------------------------------------------------------------------
(* The pipeline: the three scripts run one at a time, in any order *)

PipelineFiles == SeqsUpTo(FileRowKinds, MaxSrcRows)

LoadNextOn(files) ==
    \/ LoadFileError
    \/ LoadStartOn(files)
    \/ LoadChunk
    \/ LoadChunkInsertFails
    \/ LoadSuccess

Init ==
    /\ src = <<>>
    /\ clock = 0
    /\ dimPerson = <<>> /\ dimLocation = <<>> /\ dimCategory = <<>>
    /\ dimPayment = <<>> /\ fact = <<>>
    /\ cur = <<>>
    /\ viewExists \in BOOLEAN
    /\ nullMode = "dropped"
    /\ pc = "idle"
    /\ ld = NoLd
    /\ tf = <<>>
    /\ sn = NoSn
    /\ last = NoLast
    /\ hist = NoHist
    /\ dst = NoDst /\ ds = NoDs /\ val = NoVal /\ summary = <<>>

Next ==
    \/ LoadNextOn(PipelineFiles)
    \/ StgNext
    \/ CurNext

Spec == Init /\ [][Next]_vars

\* the loader alone, run again and again
SpecSrc == Init /\ [][LoadNextOn(PipelineFiles)]_vars

-----------------------------------------------------------------------------
(* 04_dst_stage: the aggregations of the four populate scripts.  A DST     *)
(* table is named "monthly" (dst_monthly_spending_summary), "category"     *)
(* (dst_category_trends), "person" (dst_person_analytics) or "payment"     *)
(* (dst_payment_method_summary).  A numeric column that may be NULL holds  *)
(* <<>> for NULL and <<n>> for the number n.                               *)

DstTables == {"monthly", "category", "person", "payment"}

NullNum == <<>>
Some(n) == <<n>>

\* WHERE is_latest = 1
Latest(table) == SelectSeq(table, LAMBDA r : r.is_latest = 1)

\* SELECT snapshot_version ... WHERE is_latest = 1 GROUP BY snapshot_version:
\* the versions fetchone() may return
snapshot_info(table) ==
    {Latest(table)[i].snapshot_version : i \in 1..Len(Latest(table))}

\* a = b of SQL over names: never true of a NULL
SqlEq(a, b) == a # Null /\ b # Null /\ a = b

\* the name columns of GROUP BY, after year and month
group_by(t, r) ==
    CASE t = "monthly" -> <<r.person_name, r.category_name, r.category_group,
                            r.location_name, r.location_type>>
      [] t = "category" -> <<r.category_name, r.category_group>>
      [] t = "person" -> <<r.person_name>>
      [] t = "payment" -> <<r.payment_method_name, r.payment_type>>

\* the names among them that the joins compare
JoinNames(t, g) ==
    CASE t = "monthly" -> <<g[1], g[2], g[4]>>
      [] t = "category" -> <<g[1]>>
      [] t = "person" -> <<g[1]>>
      [] t = "payment" -> <<g[1]>>

NamesEq(a, b) == \A i \in 1..Len(a) : SqlEq(a[i], b[i])

RECURSIVE SumOf(_, _)
SumOf(rows, f) == IF rows = <<>> THEN 0 ELSE rows[1][f] + SumOf(Tail(rows), f)

MaxOf(S) == CHOOSE m \in S : \A x \in S : x <= m

\* faulty variant: the names are left out of the grouping
GroupRows_AnyGroup(t, rows, y, m, g) ==
    SelectSeq(rows, LAMBDA r : r.spending_year = y /\ r.spending_month = m)

\* the rows of one group
GroupRows(t, rows, y, m, g) ==
    SelectSeq(rows, LAMBDA r : r.spending_year = y /\ r.spending_month = m
                               /\ group_by(t, r) = g)

\* monthly_base, category_base, person_base, payment_base: one row a group
base(t, rows) ==
    {[year |-> k[1], month |-> k[2], group_by |-> k[3],
      total_spending |-> SumOf(GroupRows(t, rows, k[1], k[2], k[3]), "amount_cleaned"),
      transaction_count |-> Len(GroupRows(t, rows, k[1], k[2], k[3])),
      snapshot_version_source |->
          MaxOf({GroupRows(t, rows, k[1], k[2], k[3])[i].snapshot_version :
                   i \in 1..Len(GroupRows(t, rows, k[1], k[2], k[3]))})] :
       k \in {<<rows[i].spending_year, rows[i].spending_month, group_by(t, rows[i])>> :
                i \in 1..Len(rows)}}

\* CTE prev_month: every base row with the month before its own
prev_month(t, rows) ==
    {[year |-> b.year, month |-> b.month, group_by |-> b.group_by,
      prev_month_spending |-> b.total_spending,
      prev_year |-> IF b.month = 1 THEN b.year - 1 ELSE b.year,
      prev_month |-> IF b.month = 1 THEN 12 ELSE b.month - 1] : b \in base(t, rows)}

\* CTE prev_year
prev_year(t, rows) ==
    {[year |-> b.year, month |-> b.month, group_by |-> b.group_by,
      prev_year_spending |-> b.total_spending] : b \in base(t, rows)}

\* LEFT JOIN prev_month pm ON the names AND pm.year = pm.prev_year
\*                                      AND pm.month = pm.prev_month
prev_month_on(t, b, pm) ==
    /\ NamesEq(JoinNames(t, b.group_by), JoinNames(t, pm.group_by))
    /\ pm.year = pm.prev_year
    /\ pm.month = pm.prev_month

\* LEFT JOIN prev_year py ON py.year = b.year - 1 AND py.month = b.month
\*                           AND the names ("payment" has no such join)
prev_year_on(t, b, py) ==
    /\ t # "payment"
    /\ py.year = b.year - 1
    /\ py.month = b.month
    /\ NamesEq(JoinNames(t, b.group_by), JoinNames(t, py.group_by))

\* LEFT JOIN: <<x>> for every match x, <<>> (NULLs) where there is none
LeftJoin(matches) == IF matches = {} THEN {<<>>} ELSE {<<x>> : x \in matches}

\* the number of rows a LEFT JOIN makes of a row with n matches
LeftJoinCount(n) == IF n = 0 THEN 1 ELSE n

\* matches of b in a CTE grouped from the curated rows by year, month and
\* the table's name: category_breakdown, top_category, diversity_metrics,
\* weekday_weekend, transaction_buckets, spending_frequency ("person"),
\* rolling_avgs ("category")
ByMonthName(t, rows, b) ==
    Cardinality({k \in {<<rows[i].spending_year, rows[i].spending_month,
                          JoinNames(t, group_by(t, rows[i]))>> : i \in 1..Len(rows)} :
                   k[1] = b.year /\ k[2] = b.month
                   /\ NamesEq(k[3], JoinNames(t, b.group_by))})

\* matches of b in monthly_totals (GROUP BY year, month of the base)
monthly_totals(t, rows, b) ==
    Cardinality({k \in {<<x.year, x.month>> : x \in base(t, rows)} :
                   k[1] = b.year /\ k[2] = b.month})

\* matches of b in current_ranks / payment_ranks: a row for every base row
current_ranks(t, rows, b) ==
    Cardinality({x \in base(t, rows) :
                   x.year = b.year /\ x.month = b.month
                   /\ NamesEq(JoinNames(t, x.group_by), JoinNames(t, b.group_by))})

\* matches of b in prev_ranks: the base rows of the month before
prev_ranks(t, rows, b) ==
    Cardinality({x \in base(t, rows) :
                   /\ x.year = (IF b.month = 1 THEN b.year - 1 ELSE b.year)
                   /\ x.month = (IF b.month = 1 THEN 12 ELSE b.month - 1)
                   /\ NamesEq(JoinNames(t, x.group_by), JoinNames(t, b.group_by))})

\* matches of b in top_cat_1, top_cat_2, top_cat_3: the category of rank k
\* of the payment method in the month, if it has k categories
top_cat(k, rows, b) ==
    IF /\ b.group_by[1] # Null
       /\ Cardinality({rows[i].category_name : i \in
              {j \in 1..Len(rows) : /\ rows[j].spending_year = b.year
                                    /\ rows[j].spending_month = b.month
                                    /\ rows[j].payment_method_name = b.group_by[1]}}) >= k
    THEN 1 ELSE 0

\* how many rows the joins other than prev_month and prev_year make of b
copies(t, rows, b) ==
    CASE t = "monthly" -> 1
      [] t = "category" ->
             LeftJoinCount(monthly_totals(t, rows, b))
             * LeftJoinCount(ByMonthName(t, rows, b))
             * LeftJoinCount(current_ranks(t, rows, b))
             * LeftJoinCount(prev_ranks(t, rows, b))
      [] t = "person" ->
             LeftJoinCount(ByMonthName(t, rows, b)) * LeftJoinCount(ByMonthName(t, rows, b))
             * LeftJoinCount(ByMonthName(t, rows, b)) * LeftJoinCount(ByMonthName(t, rows, b))
             * LeftJoinCount(ByMonthName(t, rows, b)) * LeftJoinCount(ByMonthName(t, rows, b))
      [] t = "payment" ->
             LeftJoinCount(monthly_totals(t, rows, b))
             * LeftJoinCount(top_cat(1, rows, b)) * LeftJoinCount(top_cat(2, rows, b))
             * LeftJoinCount(top_cat(3, rows, b))
             * LeftJoinCount(current_ranks(t, rows, b))

\* ROUND(n / d, 0) of NUMERIC for d > 0: halves away from zero
RoundDiv(n, d) ==
    IF n >= 0 THEN (2 * n + d) \div (2 * d) ELSE 0 - ((2 * (0 - n) + d) \div (2 * d))

COALESCE(x, n) == IF x = NullNum THEN n ELSE x[1]

\* ROUND(((total - prev) / prev * 100)::NUMERIC, 2), in hundredths of a percent
percent_change(total, prev) ==
    IF prev # NullNum /\ prev[1] > 0
    THEN Some(RoundDiv((total - prev[1]) * 10000, prev[1]))
    ELSE NullNum

\* category_breakdown: SUM(CASE WHEN category_group = g THEN amount_cleaned
\* ELSE 0 END) of the person's month, NULL when the join finds no row
group_spending(t, rows, b, g) ==
    IF t = "person" /\ ByMonthName(t, rows, b) > 0
    THEN Some(SumOf(SelectSeq(GroupRows(t, rows, b.year, b.month, b.group_by),
                              LAMBDA r : r.category_group = g), "amount_cleaned"))
    ELSE NullNum

\* one row of the SELECT of the INSERT.  breakdown stands for the six
\* columns of category_breakdown ("person"), which add up to the group's total
\* and are NULL when the join finds no row
DstRow(t, rows, b, pm, py) ==
    LET prev_m == IF pm = <<>> THEN NullNum ELSE Some(pm[1].prev_month_spending)
        prev_y == IF py = <<>> THEN NullNum ELSE Some(py[1].prev_year_spending)
    IN [year |-> b.year, month |-> b.month, group_by |-> b.group_by,
        total_spending |-> b.total_spending,
        transaction_count |-> b.transaction_count,
        prev_month_spending |-> prev_m,
        mom_absolute_change |-> b.total_spending - COALESCE(prev_m, 0),
        mom_percent_change |-> percent_change(b.total_spending, prev_m),
        prev_year_spending |-> prev_y,
        yoy_absolute_change |-> b.total_spending - COALESCE(prev_y, 0),
        yoy_percent_change |-> percent_change(b.total_spending, prev_y),
        breakdown |-> IF t = "person" /\ ByMonthName(t, rows, b) > 0
                      THEN Some(b.total_spending) ELSE NullNum,
        essential_spending |-> group_spending(t, rows, b, "Essential"),
        discretionary_spending |-> group_spending(t, rows, b, "Discretionary"),
        snapshot_version_source |-> b.snapshot_version_source]

RECURSIVE SetToSeq(_)
SetToSeq(S) ==
    IF S = {} THEN <<>>
    ELSE LET x == CHOOSE y \in S : TRUE IN <<x>> \o SetToSeq(S \ {x})

RECURSIVE Repeat(_, _)
Repeat(x, n) == IF n = 0 THEN <<>> ELSE <<x>> \o Repeat(x, n - 1)

RECURSIVE Concat(_)
Concat(ss) == IF ss = <<>> THEN <<>> ELSE Head(ss) \o Concat(Tail(ss))

\* FROM base b LEFT JOIN prev_month pm ... LEFT JOIN prev_year py ...: the
\* rows of the join, each with the base row and the rows joined to it
joined(t, rows) ==
    UNION {{[b |-> b, pm |-> pm, py |-> py] :
              pm \in LeftJoin({x \in prev_month(t, rows) : prev_month_on(t, b, x)}),
              py \in LeftJoin({x \in prev_year(t, rows) : prev_year_on(t, b, x)})} :
           b \in base(t, rows)}

\* the rows the INSERT ... SELECT of a populate script adds
dst_insert_query(t, table) ==
    LET rows == Latest(table)
        js == SetToSeq(joined(t, rows))
    IN Concat([i \in 1..Len(js) |->
                 Repeat(DstRow(t, rows, js[i].b, js[i].pm, js[i].py),
                        copies(t, rows, js[i].b))])

\* faulty variant: STEP 2 deletes nothing
dst_delete_Nothing(rows, version) == rows

\* DELETE FROM the table WHERE snapshot_version_source = :version
dst_delete(rows, version) ==
    SelectSeq(rows, LAMBDA r : r.snapshot_version_source # version)

-----------------------------------------------------------------------------
(* 02_populate_monthly_summary.py, 03_populate_category_trends.py,         *)
(* 04_populate_person_analytics.py, 05_populate_payment_summary.py: one    *)
(* connection, one commit after the INSERT                                 *)

OfVersion(rows, version) ==
    SelectSeq(rows, LAMBDA r : r.snapshot_version_source = version)

HasNullName(t, rows) ==
    \E i \in 1..Len(rows) : \E n \in 1..Len(JoinNames(t, rows[i].group_by)) :
        JoinNames(t, rows[i].group_by)[n] = Null

\* SUM(total_spending) of the rows of a month
MonthTotal(rows, y, m) ==
    SumOf(SelectSeq(rows, LAMBDA r : r.year = y /\ r.month = m), "total_spending")

\* STEP 4 formats what it reads with f-strings: None raises TypeError where a
\* width or precision is given, and None[:15] does.  The samples are the
\* LIMIT 5 rows, which is every row of a table of at most five.
\*  monthly:  SUM(total_spending):,.2f, person_name[:15], category_name[:15]
\*  category: category_name:20, AVG(percent_of_total_spending):5.2f
\*  person:   AVG(essential_percent):.1f, AVG(essential_to_discretionary_ratio):.2f,
\*            person_name:20, essential_percent:5.1f
\*  payment:  payment_method_name:25, AVG(percent_of_spending):5.1f
Step4Raises(t, rows) ==
    CASE t = "monthly" -> rows = <<>> \/ HasNullName(t, rows)
      [] t = "category" ->
             \/ HasNullName(t, rows)
             \/ \E i \in 1..Len(rows) : MonthTotal(rows, rows[i].year, rows[i].month) = 0
      [] t = "person" ->
             \/ HasNullName(t, rows)
             \/ \E i \in 1..Len(rows) : rows[i].total_spending = 0
             \/ \A i \in 1..Len(rows) :
                   rows[i].discretionary_spending \in {NullNum, Some(0)}
      [] t = "payment" ->
             \/ HasNullName(t, rows)
             \/ \E i \in 1..Len(rows) : MonthTotal(rows, rows[i].year, rows[i].month) = 0

\* faulty variant: every statement commits by itself, the DELETE stays
rollback_Autocommit(committed, uncommitted) == uncommitted

\* the connection closes with its transaction open: what was not committed
\* is undone
rollback(committed, uncommitted) == committed

DstExit(t, status, step, version) ==
    /\ pc' = "idle"
    /\ ds' = NoDs
    /\ last' = [Exit(t, status, step, 0) EXCEPT !.version = version]

\* STEP 1: if not snapshot_info
NoLatest(table) == snapshot_info(table) = {}

\* STEP 1: no curated row has is_latest = 1: exit(1)
DstNoLatest(t) ==
    /\ pc = "idle"
    /\ NoLatest(cur)
    /\ last' = Exit(t, 1, "no_latest", 0)
    /\ UNCHANGED <<src, clock, stgTables, cur, viewExists, nullMode, pc, ld, tf, sn,
                   hist, dst, ds, val, summary>>

\* a database error in STEP 1 or in the DELETE: except, exit(1)
DstCheckFails(t) ==
    /\ pc = "idle"
    /\ last' = Exit(t, 1, "check", 0)
    /\ UNCHANGED <<src, clock, stgTables, cur, viewExists, nullMode, pc, ld, tf, sn,
                   hist, dst, ds, val, summary>>

\* STEP 2 deletes, the INSERT of STEP 3 raises: the connection closes
\* without a commit, except, exit(1)
DstInsertFails(t) ==
    /\ pc = "idle"
    /\ ~NoLatest(cur)
    /\ \E v \in snapshot_info(cur) :
          /\ dst' = [dst EXCEPT ![t] = rollback(@, dst_delete(@, v))]
          /\ last' = [Exit(t, 1, "insert", 0) EXCEPT !.version = v]
    /\ UNCHANGED <<src, clock, stgTables, cur, viewExists, nullMode, pc, ld, tf, sn,
                   hist, ds, val, summary>>

\* STEP 2 and STEP 3: the rows of the version are deleted, the aggregates
\* of the flagged curated rows inserted, commit
DstPopulate(t) ==
    /\ pc = "idle"
    /\ ~NoLatest(cur)
    /\ \E v \in snapshot_info(cur) :
          /\ dst' = [dst EXCEPT ![t] = dst_delete(@, v) \o dst_insert_query(t, cur)]
          /\ ds' = [table |-> t, snapshot_version |-> v,
                    deleted_count |-> Len(OfVersion(dst[t], v))]
    /\ pc' = "dst_verify"
    /\ last' = Running(t)
    /\ UNCHANGED <<src, clock, stgTables, cur, viewExists, nullMode, ld, tf, sn,
                   hist, val, summary>>

\* STEP 4 and the end of the script: the totals and samples are printed;
\* an exception in them ends the script with exit(1), after the commit
DstVerify ==
    /\ pc = "dst_verify"
    /\ IF Step4Raises(ds.table, OfVersion(dst[ds.table], ds.snapshot_version))
       THEN DstExit(ds.table, 1, "verify", ds.snapshot_version)
       ELSE DstExit(ds.table, 0, "done", ds.snapshot_version)
    /\ UNCHANGED <<src, clock, stgTables, cur, viewExists, nullMode, ld, tf, sn,
                   hist, dst, val, summary>>

\* a database error in STEP 4: except, exit(1), after the commit
DstVerifyFails ==
    /\ pc = "dst_verify"
    /\ DstExit(ds.table, 1, "verify", ds.snapshot_version)
    /\ UNCHANGED <<src, clock, stgTables, cur, viewExists, nullMode, ld, tf, sn,
                   hist, dst, val, summary>>

DstNext ==
    \/ \E t \in DstTables : DstNoLatest(t)
    \/ \E t \in DstTables : DstCheckFails(t)
    \/ \E t \in DstTables : DstInsertFails(t)
    \/ \E t \in DstTables : DstPopulate(t)
    \/ DstVerify
    \/ DstVerifyFails

-----------------------------------------------------------------------------
(* The stages after STG: the source is loaded and transformed, then the    *)
(* snapshot, populate and validation scripts run one at a time, in any     *)
(* order                                                                   *)

\* the month before and the month after BaseRow's, a discretionary category
RowDec == [BaseRow EXCEPT !.spending_date = D(2023, "-", 12, 20), !.amount = <<Num(5)>>]
RowDining == [BaseRow EXCEPT !.category = <<"dining">>, !.amount = <<Num(9)>>]

\* the files behind the source: one month, two consecutive months across a
\* year, two categories of a month, a row without a person
DstFiles ==
    {f \in {<<>>, <<BaseRow>>, <<RowDec, BaseRow>>, <<BaseRow, RowDining>>,
            <<RowNoPerson, RowDining>>} : Len(f) <= MaxDstRows}

\* the STG tables a successful transform leaves of a source (empty ones of
\* an empty source: the script ends after STEP 0)
StgOf(source, mode) ==
    LET valid == df_valid(Transform(source))
        p == LoadDim(<<>>, persons(valid), FALSE, mode)
        l == LoadDim(<<>>, locations(valid), TRUE, mode)
        c == LoadDim(<<>>, categories(valid), TRUE, mode)
        y == LoadDim(<<>>, payment_methods(valid), TRUE, mode)
    IN [person |-> p, location |-> l, category |-> c, payment |-> y,
        fact |-> InsertFacts(<<>>, df_fact(valid, p, l, c, y))]

InitDst ==
    /\ src \in {AppendRows(<<>>, f, 0) : f \in DstFiles}
    /\ nullMode = "kept"
    /\ dimPerson = StgOf(src, nullMode).person
    /\ dimLocation = StgOf(src, nullMode).location
    /\ dimCategory = StgOf(src, nullMode).category
    /\ dimPayment = StgOf(src, nullMode).payment
    /\ fact = StgOf(src, nullMode).fact
    /\ clock = 0
    /\ cur = <<>>
    /\ viewExists \in BOOLEAN
    /\ pc = "idle"
    /\ ld = NoLd
    /\ tf = <<>>
    /\ sn = NoSn
    /\ last = NoLast
    /\ hist = NoHist
    /\ dst = NoDst /\ ds = NoDs /\ val = NoVal /\ summary = <<>>

NextDst ==
    \/ CurNext
    \/ DstNext

SpecDst == InitDst /\ [][NextDst]_vars

-----------------------------------------------------------------------------
(* 01_src_stage/03_run_validation.py.  The checks are SQL statements of a  *)
(* file; their results are read back through v_latest_validation_summary,  *)
(* here the variable summary: rows with a number of errors and of warnings *)

\* the rows the checks can leave in the summary
SummaryRows ==
    SeqsUpTo([errors : 0..MaxCheckFailures, warnings : 0..MaxCheckFailures],
             MaxSummaryRows)

\* faulty variant: data is always found
NoData_Never(count) == FALSE

\* STEP 1: if count == 0
NoData(count) == count = 0

\* faulty variant: warnings stop the pipeline too
Decision_WarningsFail(rows) ==
    IF (IF Len(rows) > 0 THEN SumOf(rows, "errors") + SumOf(rows, "warnings") ELSE 0) > 0
    THEN 1 ELSE 0

\* STEP 6: the exit status decided from the summary
Decision(rows) ==
    LET errors == IF Len(rows) > 0 THEN SumOf(rows, "errors") ELSE 0
        warnings == IF Len(rows) > 0 THEN SumOf(rows, "warnings") ELSE 0
    IN IF errors > 0 THEN 1
       ELSE IF warnings > 0 THEN 0
       ELSE 0

\* STEP 1: src_daily_spending is empty: sys.exit(1)
SrcValNoData ==
    /\ pc = "idle"
    /\ NoData(Len(src))
    /\ last' = Exit("src_validation", 1, "no_data", 0)
    /\ UNCHANGED <<src, clock, stgTables, cur, viewExists, nullMode, pc, ld, tf, sn,
                   hist, dst, ds, val, summary>>

\* STEP 2: the SQL file is not found: sys.exit(1)
SrcValNoSqlFile ==
    /\ pc = "idle"
    /\ ~NoData(Len(src))
    /\ last' = Exit("src_validation", 1, "no_sql_file", 0)
    /\ UNCHANGED <<src, clock, stgTables, cur, viewExists, nullMode, pc, ld, tf, sn,
                   hist, dst, ds, val, summary>>

\* a query of STEP 1 or a statement of STEP 3 raises: nothing catches it,
\* nothing is committed, the interpreter ends with status 1
SrcValRaises ==
    /\ pc = "idle"
    /\ last' = Exit("src_validation", 1, "error", 0)
    /\ UNCHANGED <<src, clock, stgTables, cur, viewExists, nullMode, pc, ld, tf, sn,
                   hist, dst, ds, val, summary>>

\* STEP 3 commits the results of the checks
SrcValRunChecks ==
    /\ pc = "idle"
    /\ ~NoData(Len(src))
    /\ summary' \in SummaryRows
    /\ pc' = "src_val_decide"
    /\ last' = Running("src_validation")
    /\ UNCHANGED <<src, clock, stgTables, cur, viewExists, nullMode, ld, tf, sn,
                   hist, dst, ds, val>>

\* a query of STEP 4 or STEP 5 raises: status 1, the results stay
SrcValReadRaises ==
    /\ pc = "src_val_decide"
    /\ pc' = "idle"
    /\ last' = Exit("src_validation", 1, "error", 0)
    /\ UNCHANGED <<src, clock, stgTables, cur, viewExists, nullMode, ld, tf, sn,
                   hist, dst, ds, val, summary>>

\* STEP 4 to STEP 6: the summary is read and the status decided
SrcValDecide ==
    /\ pc = "src_val_decide"
    /\ pc' = "idle"
    /\ last' = Exit("src_validation", Decision(summary), "decision", 0)
    /\ UNCHANGED <<src, clock, stgTables, cur, viewExists, nullMode, ld, tf, sn,
                   hist, dst, ds, val, summary>>

SrcValNext ==
    \/ SrcValNoData
    \/ SrcValNoSqlFile
    \/ SrcValRaises
    \/ SrcValRunChecks
    \/ SrcValReadRaises
    \/ SrcValDecide

\* the validation run after loads of small files
InitSrcVal ==
    /\ src \in {AppendRows(<<>>, f, 0) : f \in SeqsUpTo(FileRowKinds, MaxSrcRows)}
    /\ clock = 0
    /\ dimPerson = <<>> /\ dimLocation = <<>> /\ dimCategory = <<>> /\ dimPayment = <<>>
    /\ fact = <<>>
    /\ cur = <<>>
    /\ viewExists = TRUE
    /\ nullMode = "kept"
    /\ pc = "idle"
    /\ ld = NoLd
    /\ tf = <<>>
    /\ sn = NoSn
    /\ last = NoLast
    /\ hist = NoHist
    /\ dst = NoDst /\ ds = NoDs /\ val = NoVal /\ summary = <<>>

SpecSrcVal == InitSrcVal /\ [][SrcValNext]_vars

-----------------------------------------------------------------------------
(* The stages in sequence: the validation of SRC, the snapshot of STG, the  *)
(* populate scripts of DST, run in any order over a small source           *)

GateRowKinds == {RowDining}

InitGate ==
    /\ src \in {AppendRows(<<>>, f, 0) : f \in SeqsUpTo(GateRowKinds, MaxGateRows)}
    /\ nullMode = "kept"
    /\ \E stg \in {StgOf(src, nullMode), StgOf(<<>>, nullMode)} :
          /\ dimPerson = stg.person
          /\ dimLocation = stg.location
          /\ dimCategory = stg.category
          /\ dimPayment = stg.payment
          /\ fact = stg.fact
    /\ clock = 0
    /\ cur = <<>>
    /\ viewExists \in BOOLEAN
    /\ pc = "idle"
    /\ ld = NoLd
    /\ tf = <<>>
    /\ sn = NoSn
    /\ last = NoLast
    /\ hist = NoHist
    /\ dst = NoDst /\ ds = NoDs /\ val = NoVal /\ summary = <<>>

NextGate == SrcValNext \/ CurNext \/ DstNext

SpecGate == InitGate /\ [][NextGate]_vars

-----------------------------------------------------------------------------
(* 06_run_validation.py *)

\* SELECT SUM(column) FROM the table WHERE snapshot_version_source = :v
SumColumn(rows, v, f) ==
    IF OfVersion(rows, v) = <<>> THEN NullNum ELSE Some(SumOf(OfVersion(rows, v), f))

Abs(n) == IF n < 0 THEN 0 - n ELSE n

\* SELECT COUNT(*) ... WHERE is_latest = 1 GROUP BY snapshot_version
curated_count(table, v) ==
    Len(SelectSeq(Latest(table), LAMBDA r : r.snapshot_version = v))

\* COUNT(DISTINCT name): a NULL is not counted
CountDistinct(names) == Cardinality(names \ {Null})

\* person_breakdown: SUM of each of the six columns, which are NULL together
breakdown_sum(rows, v) ==
    SumOf([i \in 1..Len(OfVersion(rows, v)) |->
             [x |-> COALESCE(OfVersion(rows, v)[i].breakdown, 0)]], "x")

\* the f-strings of CHECK 1 and CHECK 4 format a SUM that is NULL: TypeError
ValidationRaises(d, v) ==
    \/ \E t \in DstTables : SumColumn(d[t], v, "total_spending") = NullNum
    \/ \A i \in 1..Len(OfVersion(d.person, v)) :
          OfVersion(d.person, v)[i].breakdown = NullNum

\* CHECK 1: the four totals against the curated total, tolerance 0.01
check_1(table, d, v) ==
    {<<"total mismatch", t>> : t \in
        {x \in DstTables :
           Abs(SumOf(Latest(table), "amount_cleaned")
               - COALESCE(SumColumn(d[x], v, "total_spending"), 0)) > 0}}

\* CHECK 2: curated_count == person_txn_sum == payment_txn_sum
check_2(table, d, v) ==
    IF /\ Some(curated_count(table, v)) = SumColumn(d.person, v, "transaction_count")
       /\ SumColumn(d.person, v, "transaction_count")
              = SumColumn(d.payment, v, "transaction_count")
    THEN {} ELSE {<<"Transaction counts don't match across tables">>}

\* CHECK 4: the breakdown of dst_person_analytics against its total
check_4(d, v) ==
    IF Abs(breakdown_sum(d.person, v)
           - COALESCE(SumColumn(d.person, v, "total_spending"), 0)) < 1
    THEN {} ELSE {<<"Essential/Discretionary breakdown mismatch">>}

\* CHECK 5: null_checks
check_5(d, v) ==
    {<<"has NULL values", c[1], c[2]>> : c \in
        {x \in {<<"monthly", 1>>, <<"monthly", 2>>, <<"category", 1>>,
                <<"person", 1>>, <<"payment", 1>>} :
           \E i \in 1..Len(OfVersion(d[x[1]], v)) :
               OfVersion(d[x[1]], v)[i].group_by[x[2]] = Null}}

\* CHECK 6: curated_persons == monthly_persons == person_persons
check_6(table, d, v) ==
    LET curated_persons ==
            CountDistinct({Latest(table)[i].person_name : i \in 1..Len(Latest(table))})
        monthly_persons ==
            CountDistinct({OfVersion(d.monthly, v)[i].group_by[1] :
                             i \in 1..Len(OfVersion(d.monthly, v))})
        person_persons ==
            CountDistinct({OfVersion(d.person, v)[i].group_by[1] :
                             i \in 1..Len(OfVersion(d.person, v))})
    IN IF curated_persons = monthly_persons /\ monthly_persons = person_persons
       THEN {} ELSE {<<"Person counts inconsistent across tables">>}

\* the issues list at the FINAL REPORT
issues(table, d, v) ==
    check_1(table, d, v) \cup check_2(table, d, v) \cup check_4(d, v)
    \cup check_5(d, v) \cup check_6(table, d, v)

\* no curated row has is_latest = 1: exit(1)
ValNoLatest ==
    /\ pc = "idle"
    /\ NoLatest(cur)
    /\ val' = NoVal
    /\ last' = Exit("dst_validation", 1, "no_latest", 0)
    /\ UNCHANGED <<src, clock, stgTables, cur, viewExists, nullMode, pc, ld, tf, sn,
                   hist, dst, ds, summary>>

\* a check raises (a query fails, or a NULL sum is formatted): except, exit(1)
ValRaises ==
    /\ pc = "idle"
    /\ val' = NoVal
    /\ last' = Exit("dst_validation", 1, "error", 0)
    /\ UNCHANGED <<src, clock, stgTables, cur, viewExists, nullMode, pc, ld, tf, sn,
                   hist, dst, ds, summary>>

\* the six checks run to the FINAL REPORT; the script ends with status 0
\* whether the validation passed or not
ValReport ==
    /\ pc = "idle"
    /\ \E v \in snapshot_info(cur) :
          /\ ~ValidationRaises(dst, v)
          /\ val' = [validation_passed |-> issues(cur, dst, v) = {},
                     issues |-> issues(cur, dst, v)]
          /\ last' = [Exit("dst_validation", 0, "report", 0) EXCEPT !.version = v]
    /\ UNCHANGED <<src, clock, stgTables, cur, viewExists, nullMode, pc, ld, tf, sn,
                   hist, dst, ds, summary>>

ValNext ==
    \/ ValNoLatest
    \/ ValRaises
    \/ ValReport

\* a table as populated, or emptied, or with the transaction_count of one
\* of its rows off by one
Variants(rows) ==
    {rows, <<>>}
    \cup {[rows EXCEPT ![i].transaction_count = @ + 1] : i \in 1..Len(rows)}

\* the validation alone, over DST tables that may differ from what the
\* populate scripts leave of the curated snapshot
InitVal ==
    /\ src \in {AppendRows(<<>>, f, 0) : f \in DstFiles}
    /\ nullMode = "kept"
    /\ dimPerson = StgOf(src, nullMode).person
    /\ dimLocation = StgOf(src, nullMode).location
    /\ dimCategory = StgOf(src, nullMode).category
    /\ dimPayment = StgOf(src, nullMode).payment
    /\ fact = StgOf(src, nullMode).fact
    /\ clock = 0
    /\ cur = insert_query(1, fact, dimPerson, dimCategory, dimLocation, dimPayment)
    /\ viewExists = TRUE
    /\ pc = "idle"
    /\ ld = NoLd
    /\ tf = <<>>
    /\ sn = NoSn
    /\ last = NoLast
    /\ hist = NoHist
    /\ \E m \in Variants(dst_insert_query("monthly", cur)),
          c \in Variants(dst_insert_query("category", cur)),
          p \in Variants(dst_insert_query("person", cur)),
          y \in Variants(dst_insert_query("payment", cur)) :
          dst = [monthly |-> m, category |-> c, person |-> p, payment |-> y]
    /\ ds = NoDs /\ val = NoVal /\ summary = <<>>

SpecVal == InitVal /\ [][ValNext]_vars

-----------------------------------------------------------------------------
(* Properties of 02_create_snapshot.py *)

CurSuccess == last.script = "cur" /\ last.status = 0

RowsOfVersion(table, version) ==
    SelectSeq(table, LAMBDA r : r.snapshot_version = version)

\* C1: after a snapshot run that ended with status 0, exactly one version
\* has rows flagged is_latest = 1, and it is the version that run created.
C1_OneLatestAfterSuccess ==
    CurSuccess => LatestVersions(cur) = {last.version}

\* a second run has succeeded over an earlier version
C1_Witness ==
    /\ CurSuccess
    /\ last.version = 2
    /\ Cardinality(Versions(cur)) = 2

\* C2: whenever no script runs, a table that holds a snapshot has exactly
\* one version flagged is_latest = 1, also after runs that aborted.
C2_OneLatestInEveryCommittedState ==
    (pc = "idle" /\ cur # <<>>) => Cardinality(LatestVersions(cur)) = 1

\* C3: the set of versions changes only when STEP 4 commits, and then by
\* exactly one new version: the maximum before the run plus 1 (1 for an
\* empty table), a number no version had.
C3_NextVersionIsMaxPlusOne ==
    [][Versions(cur') # Versions(cur) =>
          /\ pc = "cur_insert"
          /\ MaxVersion(cur) + 1 \notin Versions(cur)
          /\ Versions(cur') = Versions(cur) \cup {MaxVersion(cur) + 1}
          /\ \A v \in Versions(cur) : v < MaxVersion(cur')]_vars

\* a run created version 2 after version 1
C3_Witness ==
    /\ CurSuccess
    /\ last.version = 2
    /\ Versions(cur) = {1, 2}

\* C4: after a successful run the new version holds exactly one row for
\* every row of stg_fact_spending and no other row, and the rows flagged
\* is_latest = 1 are as many as the rows of stg_fact_spending.
C4_SnapshotIsFullCopy ==
    CurSuccess =>
        LET new == RowsOfVersion(cur, last.version)
        IN /\ Len(new) = Len(fact)
           /\ \A i \in 1..Len(fact) :
                 Cardinality({j \in 1..Len(new) :
                     /\ new[j].stg_spending_id = fact[i].spending_id
                     /\ new[j].src_id = fact[i].src_id
                     /\ new[j].amount_cleaned = fact[i].amount_cleaned}) = 1
           /\ \A j \in 1..Len(new) :
                 \E i \in 1..Len(fact) : new[j].stg_spending_id = fact[i].spending_id
           /\ CountLatest(cur) = Len(fact)

\* a snapshot of two staged rows, beside a rejected source row or not
C4_Witness ==
    /\ CurSuccess
    /\ Len(fact) = 2
    /\ Len(RowsOfVersion(cur, last.version)) = 2

\* C5: no step of any script removes or changes a row of the snapshot table,
\* except that a flagged row may lose its flag (is_latest from 1 to 0).
C5_EarlierVersionsKept ==
    [][/\ Len(cur') >= Len(cur)
       /\ \A i \in 1..Len(cur) :
             \/ cur'[i] = cur[i]
             \/ /\ cur[i].is_latest = 1
                /\ cur'[i] = [cur[i] EXCEPT !.is_latest = 0]]_vars

\* version 1 is historical and still there, beside a version 2 of another size
C5_Witness ==
    /\ CurSuccess
    /\ last.version = 2
    /\ \E i \in 1..Len(cur) : cur[i].snapshot_version = 1 /\ cur[i].is_latest = 0
    /\ \E c \in hist.created :
          /\ c.version = 1
          /\ c.rows = {[r EXCEPT !.is_latest = 1] : r \in
                         {cur[i] : i \in {j \in 1..Len(cur) : cur[j].snapshot_version = 1}}}
    /\ Len(RowsOfVersion(cur, 1)) # Len(RowsOfVersion(cur, 2))

-----------------------------------------------------------------------------
(* Properties of 02_transform_and_load_stg.py *)

StgSuccess == last.script = "stg" /\ last.status = 0

Penalty(missing, points) == IF missing THEN points ELSE 0

\* C6: the score of every transformed record is 100 less 30 for an amount
\* not parsed, 30 for a date not parsed, 10 for no description, 20 for no
\* person name, 5 for no location name and 5 for no category name; it lies
\* in 0..100.
C6_ScoreIsHundredLessPenalties ==
    \A i \in 1..Len(tf) :
        LET r == tf[i]
        IN /\ r.data_quality_score =
                100 - Penalty(~r.is_amount_parsed_successfully, 30)
                    - Penalty(~r.is_date_parsed_successfully, 30)
                    - Penalty(falsy(r.description), 10)
                    - Penalty(falsy(r.person_name), 20)
                    - Penalty(falsy(r.location_name), 5)
                    - Penalty(falsy(r.category_name), 5)
           /\ r.data_quality_score \in 0..100

\* a record with every penalty beside a record with a penalty for its name only
C6_Witness ==
    /\ \E i \in 1..Len(tf) : tf[i].data_quality_score = 0
    /\ \E i \in 1..Len(tf) : tf[i].data_quality_score = 80

SrcIds(rows) == {rows[i].src_id : i \in 1..Len(rows)}

Parsed(raw) == clean_amount(raw.amount).ok /\ clean_date_improved(raw.spending_date).ok

HasName(dim, name) == \E k \in 1..Len(dim) : dim[k].name = name

KeysResolve(raw) ==
    /\ HasName(dimPerson, strip(raw.person_name))
    /\ HasName(dimLocation, strip(raw.location))
    /\ HasName(dimCategory, strip(raw.category))
    /\ HasName(dimPayment, strip(raw.payment_method))

\* C7: after a transform that ended with status 0 the src_ids of the fact
\* table are those of the source rows whose amount and date parsed and
\* whose four names are in the dimension tables, each once; the valid and
\* the rejected records split the transformed records.
C7_FactIsValidSource ==
    /\ StgSuccess =>
         /\ \A i \in 1..Len(src) :
               Cardinality({j \in 1..Len(fact) : fact[j].src_id = src[i].src_id})
                 = IF Parsed(src[i]) /\ KeysResolve(src[i]) THEN 1 ELSE 0
         /\ SrcIds(fact) \subseteq SrcIds(src)
    /\ tf # <<>> =>
         /\ SrcIds(df_valid(tf)) \cap SrcIds(df_rejected(tf)) = {}
         /\ SrcIds(df_valid(tf)) \cup SrcIds(df_rejected(tf)) = SrcIds(src)
         /\ Len(df_valid(tf)) + Len(df_rejected(tf)) = Len(src)

\* one source row loaded, one rejected
C7_Witness ==
    /\ StgSuccess
    /\ Len(src) = 2
    /\ Len(fact) = 1
    /\ \E i \in 1..Len(src) : ~Parsed(src[i])

SrcOf(id) == src[CHOOSE i \in 1..Len(src) : src[i].src_id = id]

Identifies(dim, id, name) ==
    Cardinality({k \in 1..Len(dim) : dim[k].id = id}) = 1
    /\ \E k \in 1..Len(dim) : dim[k].id = id /\ dim[k].name = name

\* C8: each of the four ids of every fact row is the id of exactly one row
\* of its dimension table, and that row's name is the cleaned name of the
\* source record.
C8_FactKeysResolve ==
    \A j \in 1..Len(fact) :
        /\ fact[j].src_id \in SrcIds(src)
        /\ Identifies(dimPerson, fact[j].person_id, strip(SrcOf(fact[j].src_id).person_name))
        /\ Identifies(dimLocation, fact[j].location_id, strip(SrcOf(fact[j].src_id).location))
        /\ Identifies(dimCategory, fact[j].category_id, strip(SrcOf(fact[j].src_id).category))
        /\ Identifies(dimPayment, fact[j].payment_method_id,
                      strip(SrcOf(fact[j].src_id).payment_method))

\* a record without a person name was dropped, the other one loaded
C8_Witness ==
    /\ StgSuccess
    /\ nullMode = "dropped"
    /\ Len(fact) = 1
    /\ \E i \in 1..Len(src) :
          /\ Parsed(src[i])
          /\ src[i].person_name = Null
          /\ src[i].src_id \notin SrcIds(fact)

Names(dim) == [k \in 1..Len(dim) |-> dim[k].name]
FactSrcIds(f) == [j \in 1..Len(f) |-> f[j].src_id]
NoRepeat(s) == \A i, j \in 1..Len(s) : s[i] = s[j] => i = j

\* C9: over an unchanged source, every later successful transform leaves
\* the fact src_ids and the dimension names the first one left, each once.
C9_ReloadIsIdempotent ==
    (StgSuccess /\ hist.stgRuns >= 2) =>
        /\ Names(dimPerson) = Names(hist.stgFirst[1])
        /\ Names(dimLocation) = Names(hist.stgFirst[2])
        /\ Names(dimCategory) = Names(hist.stgFirst[3])
        /\ Names(dimPayment) = Names(hist.stgFirst[4])
        /\ FactSrcIds(fact) = FactSrcIds(hist.stgFirst[5])
        /\ NoRepeat(FactSrcIds(fact))
        /\ NoRepeat(Names(dimPerson)) /\ NoRepeat(Names(dimLocation))
        /\ NoRepeat(Names(dimCategory)) /\ NoRepeat(Names(dimPayment))

\* a second successful transform over a source with two valid rows
C9_Witness ==
    /\ StgSuccess
    /\ hist.stgRuns >= 2
    /\ Len(fact) = 2

-----------------------------------------------------------------------------
(* Properties of 02_load_parquet_to_src.py *)

\* C10: when the loader ends with status 1 in the chunk loop, no row with
\* the run's load_batch_id is left in src_daily_spending.
C10_FailedLoadLeavesNoRows ==
    (last.script = "load" /\ last.status = 1 /\ last.step = "chunk_loop") =>
        BatchCount(src, last.batch_id) = 0

\* C11: after every chunk the loader accepts, and when it reports success,
\* the number of rows of src_daily_spending with the run's load_batch_id is
\* total_loaded, the sum of the sizes of the chunks read so far.
C11_SuccessCountIsTotalLoaded ==
    [][/\ (pc = "load_loop" /\ pc' = "load_loop") =>
              BatchCount(src', ld'.batch_id) = ld'.total_loaded
       /\ (pc = "load_loop" /\ last'.script = "load" /\ last'.status = 0) =>
              BatchCount(src', ld.batch_id) = ld.total_loaded]_vars

-----------------------------------------------------------------------------
(* Properties of the DST populate scripts *)

\* C12: the rows a DST table holds for the latest snapshot version add up,
\* in total_spending (total_amount), to SUM(amount_cleaned) of the flagged
\* curated rows, and a populate script that ended with status 0 has left
\* such rows: after the four scripts, all four tables reconcile.
C12_DstTotalsReconcile ==
    \A t \in DstTables : \A v \in snapshot_info(cur) :
        /\ OfVersion(dst[t], v) # <<>> =>
              SumOf(OfVersion(dst[t], v), "total_spending")
                  = SumOf(Latest(cur), "amount_cleaned")
        /\ (last.script = t /\ last.status = 0) => OfVersion(dst[t], v) # <<>>

\* the four tables populated from two curated rows of one person and month
\* in two categories, the payment script the last to end
C12_Witness ==
    /\ last.script = "payment" /\ last.status = 0
    /\ Len(Latest(cur)) = 2
    /\ \A t \in DstTables : \A v \in snapshot_info(cur) : OfVersion(dst[t], v) # <<>>
    /\ \E v \in snapshot_info(cur) :
          /\ Len(OfVersion(dst.person, v)) = 1
          /\ Len(OfVersion(dst.monthly, v)) = 2

\* the aggregation key of a DST row
AggregationKey(t, r) == <<r.year, r.month, JoinNames(t, r.group_by)>>

OneRowPerKey(t, rows) ==
    \A i, j \in 1..Len(rows) :
        AggregationKey(t, rows[i]) = AggregationKey(t, rows[j]) => i = j

\* C14: a populate script clears the rows of the version before it inserts:
\* after a run, and after a re-run for the same version, the table holds for
\* that version exactly the rows one INSERT produces, one row per aggregation
\* key, and the rows of other versions as they were.
C14_RerunLeavesSameRows ==
    [][(pc = "idle" /\ pc' = "dst_verify") =>
          LET t == ds'.table
              v == ds'.snapshot_version
          IN /\ OfVersion(dst'[t], v) = dst_insert_query(t, cur)
             /\ OneRowPerKey(t, OfVersion(dst'[t], v))
             /\ SelectSeq(dst'[t], LAMBDA r : r.snapshot_version_source # v)
                    = SelectSeq(dst[t], LAMBDA r : r.snapshot_version_source # v)]_vars

\* a re-run of the monthly script has replaced the two rows of the version
C14_Witness ==
    /\ pc = "dst_verify"
    /\ ds.table = "monthly"
    /\ ds.deleted_count = 2
    /\ Len(OfVersion(dst.monthly, ds.snapshot_version)) = 2

\* the rows of a table for the same version and aggregation key in the
\* calendar month before that of r
PrecedingMonthRows(t, rows, r) ==
    SelectSeq(rows, LAMBDA x :
        /\ x.snapshot_version_source = r.snapshot_version_source
        /\ NamesEq(JoinNames(t, x.group_by), JoinNames(t, r.group_by))
        /\ x.year = (IF r.month = 1 THEN r.year - 1 ELSE r.year)
        /\ x.month = (IF r.month = 1 THEN 12 ELSE r.month - 1))

\* C15: in every DST row the stored previous-month value is the total of the
\* same key in the preceding calendar month (December of the year before for
\* January), NULL only when no such row exists, and the month-over-month
\* change and percentage are computed from that value.
C15_MoMUsesPrecedingMonth ==
    \A t \in DstTables : \A i \in 1..Len(dst[t]) :
        LET r == dst[t][i]
            before == PrecedingMonthRows(t, dst[t], r)
        IN /\ r.prev_month_spending =
                  (IF before = <<>> THEN NullNum ELSE Some(before[1].total_spending))
           /\ r.mom_absolute_change
                  = r.total_spending - COALESCE(r.prev_month_spending, 0)
           /\ r.mom_percent_change
                  = percent_change(r.total_spending, r.prev_month_spending)

\* the steps at which a script has caught an exception of a database
\* operation
ExceptionSteps == {"check", "update", "insert", "verify", "validation_error"}

\* C17: a script that has caught the exception of a failed database
\* operation ends with a nonzero status: none prints the error and ends
\* with status 0 after its success banner.
C17_CaughtExceptionExitsNonzero ==
    (last.script \in DstTables \cup {"cur"} /\ last.step \in ExceptionSteps)
        => last.status \notin {0, -1}

\* C18: the DELETE and the INSERT of a populate script are one transaction:
\* when the INSERT raises, the script ends with status 1 and its table (and
\* every other DST table) holds exactly the rows it held before the run.
C18_FailedInsertLeavesTable ==
    [][(pc = "idle" /\ last'.script \in DstTables /\ last'.step = "insert") =>
          /\ last'.status = 1
          /\ pc' = "idle"
          /\ dst' = dst]_vars

\* the INSERT of a re-run of the monthly script has failed, and the two rows
\* of the version that the run had deleted are in the table
C18_Witness ==
    /\ last.script = "monthly" /\ last.step = "insert" /\ last.status = 1
    /\ Len(OfVersion(dst.monthly, last.version)) = 2
    /\ OfVersion(dst.monthly, last.version) = dst_insert_query("monthly", cur)

\* the output of the stage before a script is missing
UpstreamMissing(script) ==
    CASE script = "src_validation" -> Len(src) = 0
      [] script = "cur" -> Len(fact) = 0 \/ ~viewExists
      [] script \in DstTables -> snapshot_info(cur) = {}
      [] OTHER -> FALSE

\* C16: a script started while the output of the stage before it is missing
\* (03_run_validation.py on an empty src_daily_spending, 02_create_snapshot.py
\* on an empty stg_fact_spending or without its view, a populate script with
\* no flagged curated row) ends at once with status 1 and has written
\* nothing.
C16_MissingUpstreamStopsScript ==
    [][(pc = "idle" /\ UpstreamMissing(last'.script)) =>
          /\ last'.status = 1
          /\ pc' = "idle"
          /\ UNCHANGED <<src, stgTables, cur, dst, summary>>]_vars

\* the validation of an empty source has stopped, the later stages have
\* stopped too or are to be run
C16_Witness ==
    /\ last.script = "src_validation" /\ last.step = "no_data" /\ last.status = 1
    /\ src = <<>> /\ summary = <<>> /\ cur = <<>> /\ dst = NoDst

-----------------------------------------------------------------------------
(* Properties of 06_run_validation.py *)

\* C13: when the validation reaches its final report and the sum of
\* transaction_count of the latest version in one of the four DST tables
\* differs from the number of flagged curated records, validation_passed is
\* false and an issue is recorded.
C13_CountMismatchFailsValidation ==
    (last.script = "dst_validation" /\ last.status = 0) =>
        ((\E t \in DstTables :
             SumColumn(dst[t], last.version, "transaction_count")
                 # Some(curated_count(cur, last.version)))
         => (~val.validation_passed /\ val.issues # {}))

-----------------------------------------------------------------------------
(* Properties of 01_src_stage/03_run_validation.py *)

\* the summed errors of the summary, zero for an empty summary
SummedErrors(rows) == IF rows = <<>> THEN 0 ELSE SumOf(rows, "errors")

EndsSrcValidation ==
    pc' = "idle" /\ last'.script = "src_validation" /\ last' # last

\* C19 as stated: a run of the validation ends with status 1 if and only if
\* the summed errors of the summary are greater than zero.
C19_ExitOneIffErrors ==
    [][EndsSrcValidation =>
          (last'.status = 1 <=> SummedErrors(summary') > 0)]_vars

\* C19, amended: a run that reaches the decision of STEP 6 ends with status 1
\* if the summed errors of the summary are greater than zero and with status
\* 0 otherwise, with or without warnings, an empty summary counting as zero;
\* a run that ends before STEP 6 ends with status 1.
C19_DecisionFollowsErrors ==
    [][EndsSrcValidation =>
          IF last'.step = "decision"
          THEN /\ summary' = summary
               /\ last'.status = (IF SummedErrors(summary) > 0 THEN 1 ELSE 0)
          ELSE last'.status = 1]_vars

\* a run was let through with warnings only
C19_Witness ==
    /\ last.script = "src_validation" /\ last.step = "decision" /\ last.status = 0
    /\ Len(summary) = 2
    /\ SumOf(summary, "warnings") = 2
    /\ SumOf(summary, "errors") = 0

=============================================================================
